---- MODULE Spec2Model ----
(***************************************************************************)
(* A model of src/web_scraper.py: the WebScraper class with its rate       *)
(* limited fetch, the four site scrapers, the run_all_scrapers loop and    *)
(* the two exports.                                                        *)
(*                                                                         *)
(* Python values are modelled as follows.  A dict is a function from key   *)
(* strings to values (a TLA+ record); the empty dict {} is the function    *)
(* with the empty domain.  A list is a sequence.  None is the string       *)
(* "None".  A parsed HTML document is a record of what the selectors the   *)
(* scrapers use find in it.  A decoded JSON value is tagged with its       *)
(* Python type, because isinstance(data, list) decides on it.              *)
(***************************************************************************)
EXTENDS Integers, Sequences, FiniteSets, TLC

VARIABLES
    delay_range,   \* self.delay_range, a pair <<min, max>>
    scraped_data,  \* self.scraped_data
    pc,            \* "idle", or "running" inside run_all_scrapers
    idx,           \* position of the for loop of run_all_scrapers
    all_data,      \* the local all_data of run_all_scrapers
    log,           \* logger records emitted by the current (latest) call
    trace,         \* sleeps and GET requests of the current (latest) call
    ret,           \* what the latest call returned or raised
    last_run,      \* what each scraper returned in the latest run_all_scrapers
    runs,          \* number of run_all_scrapers calls started
    json_file,     \* scraped_data.json
    csv_file,      \* scraped_summary.csv
    pending        \* the single-site call being made and the network's answer to it

vars == <<delay_range, scraped_data, pc, idx, all_data, log, trace, ret,
          last_run, runs, json_file, csv_file, pending>>

-----------------------------------------------------------------------------
(* Bounds of the model *)

MaxDelay == 2

MaxRuns == 2

MaxContainers == 2

MaxJsonLen == 11

MaxItems == 2

(* Constants of the program *)

LinkLimit == 10

ApiLimit == 10

-----------------------------------------------------------------------------
(* Python helpers *)

None == "None"

EmptyDict == [k \in {} |-> None]

Truthy(d) == DOMAIN d # {}

Get(d, k, default) == IF k \in DOMAIN d THEN d[k] ELSE default

Min(a, b) == IF a <= b THEN a ELSE b

Max(a, b) == IF a <= b THEN b ELSE a

\* the slice s[:n]
Take(s, n) == SubSeq(s, 1, Min(Len(s), n))

SeqsUpTo(S, n) == UNION {[1..k -> S] : k \in 0..n}

Repeat(x, n) == [i \in 1..n |-> x]

\* str(n) of a non-negative int, as its sequence of decimal digits
RECURSIVE Str(_)
Str(n) == IF n < 10 THEN <<n>> ELSE Append(Str(n \div 10), n % 10)

-----------------------------------------------------------------------------
(* Logging *)

Info(msg, about) == [level |-> "INFO", msg |-> msg, about |-> about, err |-> None]

Error(msg, about, err) == [level |-> "ERROR", msg |-> msg, about |-> about, err |-> err]

Warning(msg) == [level |-> "WARNING", msg |-> msg, about |-> None, err |-> None]

-----------------------------------------------------------------------------
(* Rate limiting and the network *)

\* the values random.uniform(a, b) can return: a + (b - a) * random()
Uniform(a, b) == Min(a, b)..Max(a, b)

\* _rate_limit: one time.sleep of a delay drawn from the interval
RateLimit(dr) == [op |-> "sleep", delay |-> Uniform(dr[1], dr[2])]

\* session.get(url, timeout=10) answered by resp
HttpGet(url, resp) == [op |-> "GET", url |-> url, resp |-> resp]

\* the subclasses of requests.RequestException a fetch raises
RequestExceptions == {"ConnectionError", "Timeout", "HTTPError"}

\* a body whose parsing or extraction raises
Malformed == [malformed |-> TRUE]

Responses(pages) ==
    {[status |-> e] : e \in RequestExceptions}
    \cup {[status |-> "ok", body |-> p] : p \in pages \cup {Malformed}}

FailureValue_Kind(exc) == [error |-> exc]

\* what a scraper returns when its fetch failed with exc: return {}
FailureValue(exc) == EmptyDict

\* _get_page
GetPage(dr, url, resp) ==
    LET t == <<RateLimit(dr), HttpGet(url, resp)>> IN
    IF resp.status \in RequestExceptions
    THEN [raised |-> FALSE, exc |-> None, found |-> FALSE, soup |-> Malformed,
          log |-> <<Error("Error fetching", url, resp.status)>>, trace |-> t]
    ELSE IF resp.body.malformed
    THEN [raised |-> TRUE, exc |-> "ParseError", found |-> FALSE, soup |-> Malformed,
          log |-> <<>>, trace |-> t]
    ELSE [raised |-> FALSE, exc |-> None, found |-> TRUE, soup |-> resp.body,
          log |-> <<>>, trace |-> t]

-----------------------------------------------------------------------------
(* The scrapers *)

Scrapers == <<"scrape_news_site", "scrape_quotes_site", "scrape_books_site",
              "scrape_json_api">>

DefaultUrl(s) ==
    CASE s = "scrape_news_site" -> "https://httpbin.org/html"
      [] s = "scrape_quotes_site" -> "http://quotes.toscrape.com/"
      [] s = "scrape_books_site" -> "http://books.toscrape.com/"
      [] s = "scrape_json_api" -> "https://jsonplaceholder.typicode.com/posts"

\* urljoin(url, href)
UrlJoin(url, href) == <<url, href>>

TitleText(soup, fallback) == IF soup.title # None THEN soup.title ELSE fallback

\* the loop over soup.find_all('a', href=True)
RECURSIVE NewsLinks(_, _, _)
NewsLinks(url, anchors, links) ==
    IF anchors = <<>> THEN links
    ELSE LET link == Head(anchors) IN
         NewsLinks(url, Tail(anchors),
                   Append(links, [text |-> link.text, url |-> UrlJoin(url, link.href)]))

NewsRecord(url, soup) ==
    [url |-> url,
     title |-> TitleText(soup, "No title found"),
     headings |-> soup.headings,
     paragraphs |-> SelectSeq(soup.paragraphs, LAMBDA p : p # ""),
     links |-> Take(NewsLinks(url, soup.links, <<>>), LinkLimit),
     type |-> "news_site"]

QuoteComplete_Or(q) == q.text # None \/ q.author # None

\* if quote_text and author
QuoteComplete(q) == q.text # None /\ q.author # None

\* the loop over soup.find_all('div', class_='quote')
RECURSIVE QuotesLoop(_, _)
QuotesLoop(divs, quotes) ==
    IF divs = <<>> THEN quotes
    ELSE LET q == Head(divs) IN
         QuotesLoop(Tail(divs),
                    IF QuoteComplete(q)
                    THEN Append(quotes, [text |-> q.text, author |-> q.author,
                                         tags |-> q.tags])
                    ELSE quotes)

QuotesRecord(url, soup) ==
    LET quotes == QuotesLoop(soup.quote_divs, <<>>) IN
    [url |-> url,
     title |-> TitleText(soup, "Quotes to Scrape"),
     quotes |-> quotes,
     total_quotes |-> Len(quotes),
     type |-> "quotes_site"]

RatingVocabulary == {"One", "Two", "Three", "Four", "Five"}

\* the first class of the star-rating element that names a rating
RECURSIVE Rating(_)
Rating(classes) ==
    IF classes = <<>> THEN "Unknown"
    ELSE IF Head(classes) \in RatingVocabulary THEN Head(classes)
    ELSE Rating(Tail(classes))

\* title_elem: book_article.find('h3').find('a') if book_article.find('h3') else None
TitleElem(b) == b.h3 /\ b.anchor

\* if title_elem and price_elem
BookComplete(b) == TitleElem(b) /\ b.price # None

\* the loop over soup.find_all('article', class_='product_pod')
RECURSIVE BooksLoop(_, _)
BooksLoop(articles, books) ==
    IF articles = <<>> THEN books
    ELSE LET b == Head(articles) IN
         BooksLoop(Tail(articles),
                   IF BookComplete(b)
                   THEN Append(books,
                               [title |-> IF b.title_attr # None THEN b.title_attr ELSE "",
                                price |-> b.price,
                                rating |-> Rating(b.rating_classes),
                                availability |-> IF b.availability # None
                                                 THEN b.availability ELSE "Unknown"])
                   ELSE books)

BooksRecord(url, soup) ==
    LET books == BooksLoop(soup.articles, <<>>) IN
    [url |-> url,
     title |-> TitleText(soup, "Books to Scrape"),
     books |-> books,
     total_books |-> Len(books),
     type |-> "books_site"]

IsList(data) == data.t = "list"

ApiData_Eleven(data) == IF IsList(data) THEN [data EXCEPT !.items = Take(@, ApiLimit + 1)] ELSE data

\* if isinstance(data, list): data = data[:10]
ApiData(data) == IF IsList(data) THEN [data EXCEPT !.items = Take(@, ApiLimit)] ELSE data

JsonRecord(url, data) ==
    LET d == ApiData(data) IN
    [url |-> url,
     title |-> "JSON API Data",
     api_data |-> d,
     total_items |-> IF IsList(d) THEN Len(d.items) ELSE 1,
     type |-> "json_api"]

HtmlScraper(s, dr, url, resp) ==
    LET start == Info(CASE s = "scrape_news_site" -> "Scraping news site"
                        [] s = "scrape_quotes_site" -> "Scraping quotes site"
                        [] s = "scrape_books_site" -> "Scraping books site", url)
        g == GetPage(dr, url, resp)
    IN  IF g.raised
        THEN [raised |-> TRUE, exc |-> g.exc, value |-> EmptyDict,
              log |-> <<start>> \o g.log, trace |-> g.trace]
        ELSE IF ~g.found
        THEN [raised |-> FALSE, exc |-> None, value |-> FailureValue(resp.status),
              log |-> <<start>> \o g.log, trace |-> g.trace]
        ELSE [raised |-> FALSE, exc |-> None,
              value |-> CASE s = "scrape_news_site" -> NewsRecord(url, g.soup)
                          [] s = "scrape_quotes_site" -> QuotesRecord(url, g.soup)
                          [] s = "scrape_books_site" -> BooksRecord(url, g.soup),
              log |-> <<start>> \o g.log, trace |-> g.trace]

JsonFetchEvents_GetFirst(dr, url, resp) == <<HttpGet(url, resp), RateLimit(dr)>>

\* self._rate_limit(); response = self.session.get(url, timeout=10)
JsonFetchEvents(dr, url, resp) == <<RateLimit(dr), HttpGet(url, resp)>>

ScrapeJsonApi(dr, url, resp) ==
    LET start == Info("Scraping JSON API", url)
        t == JsonFetchEvents(dr, url, resp)
    IN  IF resp.status \in RequestExceptions
        THEN [raised |-> FALSE, exc |-> None, value |-> FailureValue(resp.status),
              log |-> <<start, Error("Error fetching JSON API", url, resp.status)>>,
              trace |-> t]
        ELSE IF resp.body.malformed
        THEN [raised |-> FALSE, exc |-> None, value |-> FailureValue("JSONDecodeError"),
              log |-> <<start, Error("Error fetching JSON API", url, "JSONDecodeError")>>,
              trace |-> t]
        ELSE [raised |-> FALSE, exc |-> None, value |-> JsonRecord(url, resp.body.json),
              log |-> <<start>>, trace |-> t]

CallScraper(s, dr, url, resp) ==
    IF s = "scrape_json_api" THEN ScrapeJsonApi(dr, url, resp)
    ELSE HtmlScraper(s, dr, url, resp)

-----------------------------------------------------------------------------
(* run_all_scrapers *)

\* def __init__(self, delay_range=(1, 3))
DefaultDelayRange == <<1, 3>>

RunAllInitialData_Carry(store) == store

\* all_data = []
RunAllInitialData(store) == <<>>

RunAllCatches_RequestOnly(exc) == exc \in RequestExceptions

\* except Exception as e
RunAllCatches(exc) == TRUE

LoopBody_LogsEmpty(all, s, r) ==
    IF r.raised
    THEN [all_data |-> all, log |-> <<Error("Error running scraper", s, r.exc)>>,
          propagated |-> FALSE, exc |-> None]
    ELSE IF Truthy(r.value)
    THEN [all_data |-> Append(all, r.value),
          log |-> <<Info("Successfully scraped", Get(r.value, "url", "unknown"))>>,
          propagated |-> FALSE, exc |-> None]
    ELSE [all_data |-> all, log |-> <<Error("Error running scraper", s, None)>>,
          propagated |-> FALSE, exc |-> None]

\* the body of the for loop, given what scraper() returned or raised
LoopBody(all, s, r) ==
    IF r.raised
    THEN IF RunAllCatches(r.exc)
         THEN [all_data |-> all, log |-> <<Error("Error running scraper", s, r.exc)>>,
               propagated |-> FALSE, exc |-> None]
         ELSE [all_data |-> all, log |-> <<>>, propagated |-> TRUE, exc |-> r.exc]
    ELSE IF Truthy(r.value)
    THEN [all_data |-> Append(all, r.value),
          log |-> <<Info("Successfully scraped", Get(r.value, "url", "unknown"))>>,
          propagated |-> FALSE, exc |-> None]
    ELSE [all_data |-> all, log |-> <<>>, propagated |-> FALSE, exc |-> None]

\* one iteration: scraper() called with its default URL, answered by resp
RunIteration(dr, acc, s, resp) ==
    LET r == CallScraper(s, dr, DefaultUrl(s), resp)
        b == LoopBody(acc.all_data, s, r)
    IN  [all_data |-> b.all_data,
         log |-> acc.log \o r.log \o b.log,
         trace |-> acc.trace \o r.trace,
         last_run |-> Append(acc.last_run,
                             [scraper |-> s, raised |-> r.raised, value |-> r.value]),
         propagated |-> b.propagated,
         exc |-> b.exc]

RunStart(store) ==
    [all_data |-> RunAllInitialData(store), log |-> <<>>, trace |-> <<>>,
     last_run |-> <<>>, propagated |-> FALSE, exc |-> None]

\* the whole loop, the i-th scraper answered by rs[i]
RECURSIVE RunLoop(_, _, _, _)
RunLoop(dr, i, rs, acc) ==
    IF i > Len(Scrapers) \/ acc.propagated THEN acc
    ELSE RunLoop(dr, i + 1, rs, RunIteration(dr, acc, Scrapers[i], rs[i]))

Returned(by, value) == [by |-> by, raised |-> FALSE, exc |-> None, value |-> value]

Raised(by, exc) == [by |-> by, raised |-> TRUE, exc |-> exc, value |-> EmptyDict]

-----------------------------------------------------------------------------
(* Exports *)

NoFile == [exists |-> FALSE]

File(content) == [exists |-> TRUE, content |-> content]

\* the keys of a record in the order the scraper inserted them
KeyOrder(d) ==
    CASE d.type = "news_site" -> <<"url", "title", "headings", "paragraphs", "links", "type">>
      [] d.type = "quotes_site" -> <<"url", "title", "quotes", "total_quotes", "type">>
      [] d.type = "books_site" -> <<"url", "title", "books", "total_books", "type">>
      [] d.type = "json_api" -> <<"url", "title", "api_data", "total_items", "type">>

\* a JSON object: its members, <<key, value>>, in insertion order
JsonObject(d) == [i \in 1..Len(KeyOrder(d)) |-> <<KeyOrder(d)[i], d[KeyOrder(d)[i]]>>]

\* json.dump(self.scraped_data, f, indent=2, ensure_ascii=False)
JsonDump(store) == [i \in 1..Len(store) |-> JsonObject(store[i])]

CsvHeader == <<"URL", "Title", "Type", "Items Count">>

CsvItemsCount_NoApi(data) ==
    IF "quotes" \in DOMAIN data THEN Get(data, "total_quotes", 0)
    ELSE IF "books" \in DOMAIN data THEN Get(data, "total_books", 0)
    ELSE IF "paragraphs" \in DOMAIN data THEN Len(Get(data, "paragraphs", <<>>))
    ELSE 0

\* items_count of one row
CsvItemsCount(data) ==
    IF "quotes" \in DOMAIN data THEN Get(data, "total_quotes", 0)
    ELSE IF "books" \in DOMAIN data THEN Get(data, "total_books", 0)
    ELSE IF "api_data" \in DOMAIN data THEN Get(data, "total_items", 0)
    ELSE IF "paragraphs" \in DOMAIN data THEN Len(Get(data, "paragraphs", <<>>))
    ELSE 0

\* writer.writerow([...]): every cell written as text
CsvRow(data) ==
    <<Get(data, "url", ""), Get(data, "title", ""), Get(data, "type", ""),
      Str(CsvItemsCount(data))>>

CsvSkips_Never(store) == FALSE

\* if not self.scraped_data: logger.warning("No data to save"); return
CsvSkips(store) == store = <<>>

CsvDump(store) == <<CsvHeader>> \o [i \in 1..Len(store) |-> CsvRow(store[i])]

-----------------------------------------------------------------------------
(* The pages the network serves *)

Titles == {None, "T"}

QuoteDivs == [text : {None, "a", "b"}, author : {None, "x"}, tags : {<<"life">>}]

Articles ==
    {b \in [h3 : BOOLEAN, anchor : BOOLEAN, title_attr : {None, "t"},
            price : {None, "p1", "p2"},
            rating_classes : {<<>>, <<"star-rating", "Three">>},
            availability : {None, "In stock"}] :
        /\ b.anchor => b.h3
        /\ b.title_attr # None => b.anchor
        /\ b.availability # None <=> b.rating_classes # <<>>}

JsonValues ==
    {[t |-> "list", items |-> l] : l \in SeqsUpTo({"a", "b"}, MaxJsonLen)}
    \cup {[t |-> "object", keys |-> k] : k \in SUBSET {"id", "name"}}
    \cup {[t |-> "scalar"]}

NewsPage(title, headings, paragraphs, links) ==
    [malformed |-> FALSE, title |-> title, headings |-> headings,
     paragraphs |-> paragraphs, links |-> links]

QuotesPage(title, divs) == [malformed |-> FALSE, title |-> title, quote_divs |-> divs]

BooksPage(title, articles) == [malformed |-> FALSE, title |-> title, articles |-> articles]

JsonPage(value) == [malformed |-> FALSE, json |-> value]

SampleLink == [text |-> "l", href |-> "/x"]

SampleQuote == [text |-> "a", author |-> "x", tags |-> <<"life">>]

SampleBook ==
    [h3 |-> TRUE, anchor |-> TRUE, title_attr |-> "t", price |-> "p1",
     rating_classes |-> <<"star-rating", "Three">>, availability |-> "In stock"]

\* every page within the bounds
RichWeb(s) ==
    CASE s = "scrape_news_site" ->
            {NewsPage(t, h, p, l) : t \in Titles, h \in {<<>>, <<"h">>},
                                    p \in SeqsUpTo({"p", ""}, MaxContainers),
                                    l \in {<<>>, <<SampleLink>>}}
      [] s = "scrape_quotes_site" ->
            {QuotesPage(t, d) : t \in Titles, d \in SeqsUpTo(QuoteDivs, MaxContainers)}
      [] s = "scrape_books_site" ->
            {BooksPage(t, a) : t \in Titles, a \in SeqsUpTo(Articles, MaxContainers)}
      [] s = "scrape_json_api" -> {JsonPage(v) : v \in JsonValues}

\* one page per site
SampleWeb(s) ==
    CASE s = "scrape_news_site" -> {NewsPage("T", <<"h">>, <<"p", "">>, <<SampleLink>>)}
      [] s = "scrape_quotes_site" ->
            {QuotesPage("T", <<SampleQuote, [SampleQuote EXCEPT !.author = None]>>)}
      [] s = "scrape_books_site" ->
            {BooksPage("T", <<SampleBook, [SampleBook EXCEPT !.price = None]>>)}
      [] s = "scrape_json_api" -> {JsonPage([t |-> "list", items |-> <<"a", "b">>])}

\* well-formed pages of 0..MaxItems items, and a JSON list longer than the limit
ExportWeb(s) ==
    CASE s = "scrape_news_site" ->
            {NewsPage("T", <<>>, Repeat("p", n), <<>>) : n \in 0..MaxItems}
      [] s = "scrape_quotes_site" ->
            {QuotesPage("T", Repeat(SampleQuote, n)) : n \in 0..MaxItems}
      [] s = "scrape_books_site" ->
            {BooksPage("T", Repeat(SampleBook, n)) : n \in 0..MaxItems}
      [] s = "scrape_json_api" ->
            {JsonPage([t |-> "list", items |-> Repeat("a", n)]) :
                n \in (0..MaxItems) \cup {ApiLimit + 1}}
            \cup {JsonPage([t |-> "object", keys |-> {"id", "name"}])}

Urls(s) == {DefaultUrl(s), "http://quotes.toscrape.com/page/2/"}

DelayRanges == (0..MaxDelay) \X (0..MaxDelay)

ScraperSet == {Scrapers[i] : i \in 1..Len(Scrapers)}

NoCall == [scraper |-> None]

\* the direct calls of a scraper, answered with one of the pages web[s] or a failure
Calls(web) ==
    UNION {{[scraper |-> s, url |-> u, resp |-> r] :
                u \in Urls(s), r \in Responses(web[s])} : s \in ScraperSet}

-----------------------------------------------------------------------------
(* The state machine *)

\* WebScraper(delay_range=dr)
Construct(dr) ==
    /\ delay_range = dr
    /\ scraped_data = <<>>
    /\ pc = "idle"
    /\ idx = 0
    /\ all_data = <<>>
    /\ log = <<>>
    /\ trace = <<>>
    /\ ret = Returned("__init__", EmptyDict)
    /\ last_run = <<>>
    /\ runs = 0
    /\ json_file = NoFile
    /\ csv_file = NoFile
    /\ pending = NoCall

Init == Construct(DefaultDelayRange)

\* run_all_scrapers is entered
RunAllStart ==
    /\ pc = "idle"
    /\ pending = NoCall
    /\ runs < MaxRuns
    /\ pc' = "running"
    /\ idx' = 1
    /\ all_data' = RunStart(scraped_data).all_data
    /\ log' = <<>>
    /\ trace' = <<>>
    /\ last_run' = <<>>
    /\ runs' = runs + 1
    /\ UNCHANGED <<delay_range, scraped_data, ret, json_file, csv_file, pending>>

\* one iteration of the for loop
RunAllStep ==
    /\ pc = "running"
    /\ idx <= Len(Scrapers)
    /\ \E resp \in Responses(SampleWeb(Scrapers[idx])) :
          LET acc == RunIteration(delay_range,
                                  [all_data |-> all_data, log |-> log, trace |-> trace,
                                   last_run |-> last_run, propagated |-> FALSE,
                                   exc |-> None],
                                  Scrapers[idx], resp)
          IN  /\ all_data' = acc.all_data
              /\ log' = acc.log
              /\ trace' = acc.trace
              /\ last_run' = acc.last_run
              /\ IF acc.propagated
                 THEN /\ pc' = "idle"
                      /\ idx' = 0
                      /\ ret' = Raised("run_all_scrapers", acc.exc)
                 ELSE /\ pc' = "running"
                      /\ idx' = idx + 1
                      /\ ret' = ret
    /\ UNCHANGED <<delay_range, scraped_data, runs, json_file, csv_file, pending>>

\* self.scraped_data = all_data; return all_data
RunAllReturn ==
    /\ pc = "running"
    /\ idx > Len(Scrapers)
    /\ scraped_data' = all_data
    /\ ret' = Returned("run_all_scrapers", all_data)
    /\ pc' = "idle"
    /\ idx' = 0
    /\ all_data' = <<>>
    /\ UNCHANGED <<delay_range, log, trace, last_run, runs, json_file, csv_file, pending>>

\* a caller invokes one scraper directly; the network's answer is fixed here
Invoke(calls) ==
    /\ pc = "idle"
    /\ pending = NoCall
    /\ pending' \in calls
    /\ UNCHANGED <<delay_range, scraped_data, pc, idx, all_data, log, trace, ret,
                   last_run, runs, json_file, csv_file>>

\* scrape_news_site, scrape_quotes_site, scrape_books_site or scrape_json_api
ScrapeOne ==
    /\ pc = "idle"
    /\ pending # NoCall
    /\ LET r == CallScraper(pending.scraper, delay_range, pending.url, pending.resp)
       IN  /\ ret' = IF r.raised THEN Raised(pending.scraper, r.exc)
                     ELSE Returned(pending.scraper, r.value)
           /\ log' = r.log
           /\ trace' = r.trace
    /\ pending' = NoCall
    /\ UNCHANGED <<delay_range, scraped_data, pc, idx, all_data, last_run, runs,
                   json_file, csv_file>>

\* save_to_json
SaveToJson ==
    /\ pc = "idle"
    /\ pending = NoCall
    /\ json_file' = File(JsonDump(scraped_data))
    /\ log' = <<Info("Data saved", "scraped_data.json")>>
    /\ trace' = <<>>
    /\ ret' = Returned("save_to_json", EmptyDict)
    /\ UNCHANGED <<delay_range, scraped_data, pc, idx, all_data, last_run, runs,
                   csv_file, pending>>

\* save_to_csv
SaveToCsv ==
    /\ pc = "idle"
    /\ pending = NoCall
    /\ IF CsvSkips(scraped_data)
       THEN /\ log' = <<Warning("No data to save")>>
            /\ csv_file' = csv_file
       ELSE /\ log' = <<Info("Summary saved", "scraped_summary.csv")>>
            /\ csv_file' = File(CsvDump(scraped_data))
    /\ trace' = <<>>
    /\ ret' = Returned("save_to_csv", EmptyDict)
    /\ UNCHANGED <<delay_range, scraped_data, pc, idx, all_data, last_run, runs,
                   json_file, pending>>

SampleCalls == Calls([s \in ScraperSet |-> SampleWeb(s)])

Next ==
    \/ RunAllStart
    \/ RunAllStep
    \/ RunAllReturn
    \/ Invoke(SampleCalls)
    \/ ScrapeOne

\* the scraper driven through run_all_scrapers and single-site calls
Spec == Init /\ [][Next]_vars

-----------------------------------------------------------------------------
(* Any delay_range: the constructor accepts every pair *)

InitConfig == \E dr \in DelayRanges : Construct(dr)

NextConfig ==
    \/ Invoke(SampleCalls)
    \/ ScrapeOne

SpecConfig == InitConfig /\ [][NextConfig]_vars

-----------------------------------------------------------------------------
(* The extraction of every page within the bounds *)

\* a scraper just built, one direct call about to be made
InitExtract ==
    /\ delay_range = DefaultDelayRange
    /\ scraped_data = <<>>
    /\ pc = "idle"
    /\ idx = 0
    /\ all_data = <<>>
    /\ log = <<>>
    /\ trace = <<>>
    /\ ret = Returned("__init__", EmptyDict)
    /\ last_run = <<>>
    /\ runs = 0
    /\ json_file = NoFile
    /\ csv_file = NoFile
    /\ \E s \in ScraperSet :
          \E u \in Urls(s) :
             \/ \E r \in Responses({}) : pending = [scraper |-> s, url |-> u, resp |-> r]
             \/ \E p \in RichWeb(s) :
                   pending = [scraper |-> s, url |-> u,
                              resp |-> [status |-> "ok", body |-> p]]

NextExtract == ScrapeOne

SpecExtract == InitExtract /\ [][NextExtract]_vars

-----------------------------------------------------------------------------
(* The exports of every store run_all_scrapers leaves within the bounds *)

\* the answers to the four scrapers of one run
ExportAnswers ==
    {<<a, b, c, d>> : a \in Responses(ExportWeb(Scrapers[1])),
                      b \in Responses(ExportWeb(Scrapers[2])),
                      c \in Responses(ExportWeb(Scrapers[3])),
                      d \in Responses(ExportWeb(Scrapers[4]))}

\* the state run_all_scrapers returns in when answered by rs
AfterRun(rs) ==
    LET acc == RunLoop(DefaultDelayRange, 1, rs, RunStart(<<>>)) IN
    /\ delay_range = DefaultDelayRange
    /\ scraped_data = acc.all_data
    /\ pc = "idle"
    /\ idx = 0
    /\ all_data = <<>>
    /\ log = acc.log
    /\ trace = acc.trace
    /\ ret = Returned("run_all_scrapers", acc.all_data)
    /\ last_run = acc.last_run
    /\ runs = 1
    /\ json_file = NoFile
    /\ csv_file = NoFile
    /\ pending = NoCall

InitExport ==
    \/ Construct(DefaultDelayRange)
    \/ \E rs \in ExportAnswers : AfterRun(rs)

NextExport ==
    \/ SaveToJson
    \/ SaveToCsv

SpecExport == InitExport /\ [][NextExport]_vars

-----------------------------------------------------------------------------
(* What the properties read off a state *)

Gets(t) == SelectSeq(t, LAMBDA e : e.op = "GET")

\* the answer makes the source fail: the fetch fails, or the body is unusable
IsFailure(resp) == resp.status # "ok" \/ resp.body.malformed

FailureKind(resp) ==
    IF resp.status # "ok" THEN resp.status
    ELSE IF resp.body.malformed THEN "ParseError"
    ELSE None

\* the error records of the log that are about scraper s
ErrorsAbout(s) ==
    SelectSeq(log, LAMBDA e : e.level = "ERROR" /\ e.about \in {s, DefaultUrl(s)})

ErrorRecords == SelectSeq(log, LAMBDA e : e.level = "ERROR")

RunReturned == pc = "idle" /\ ret.by = "run_all_scrapers"

SingleReturned == pc = "idle" /\ ret.by \in ScraperSet

\* the answer the latest single-site call got
Answer == trace[2].resp

Failing(gets) == {i \in 1..Len(gets) : IsFailure(gets[i].resp)}

-----------------------------------------------------------------------------
(* C1 *)

\* C1: when run_all_scrapers returns after k of its n sources failed (fetch
\* failure or extraction failure), the returned store has exactly n - k
\* records and the log holds exactly one error record for each failed source
\* and none for the others.
C1_StoreSizeAndOneLogPerFailure ==
    RunReturned =>
        LET gets == Gets(trace)
            n == Len(Scrapers)
            k == Cardinality(Failing(gets))
        IN  /\ ~ret.raised
            /\ Len(gets) = n
            /\ Len(ret.value) = n - k
            /\ Len(ErrorRecords) = k
            /\ \A i \in 1..n :
                  Len(ErrorsAbout(Scrapers[i])) = IF i \in Failing(gets) THEN 1 ELSE 0

\* a run in which a fetch failed, a body was unusable and two sources succeeded
C1_Witness ==
    /\ RunReturned
    /\ Len(ret.value) = 2
    /\ \E i, j \in 1..Len(Gets(trace)) :
          /\ Gets(trace)[i].resp.status = "Timeout"
          /\ Gets(trace)[j].resp.status = "ok"
          /\ Gets(trace)[j].resp.body.malformed

-----------------------------------------------------------------------------
(* C2 *)

\* C2: run_all_scrapers attempts every configured source exactly once, in
\* configuration order, whatever the earlier sources did: while the loop is
\* at position idx exactly the first idx - 1 sources have been fetched, in
\* order; no failure of any kind ends the call with an exception; and the
\* call returns the store it has assigned.
C2_EverySourceAttemptedNoPropagation ==
    LET gets == Gets(trace) IN
    /\ pc = "running" =>
          /\ Len(gets) = idx - 1
          /\ \A i \in 1..Len(gets) : gets[i].url = DefaultUrl(Scrapers[i])
    /\ ret.by = "run_all_scrapers" => ~ret.raised
    /\ RunReturned =>
          /\ Len(gets) = Len(Scrapers)
          /\ \A i \in 1..Len(gets) : gets[i].url = DefaultUrl(Scrapers[i])
          /\ ret.value = scraped_data

\* a run in which the four sources failed in the four ways, and which returned
C2_Witness ==
    /\ RunReturned
    /\ Len(Gets(trace)) = 4
    /\ Gets(trace)[1].resp.status = "ConnectionError"
    /\ Gets(trace)[2].resp.status = "Timeout"
    /\ Gets(trace)[3].resp.status = "ok"
    /\ Gets(trace)[3].resp.body.malformed
    /\ Gets(trace)[4].resp.status = "HTTPError"
    /\ ret.value = <<>>

-----------------------------------------------------------------------------
(* C3 *)

\* the records the scrapers of the latest run returned, in the order of the run
Successes(results) ==
    LET good == SelectSeq(results, LAMBDA r : ~r.raised /\ DOMAIN r.value # {})
    IN  [i \in 1..Len(good) |-> good[i].value]

\* C3: between calls, the store holds exactly the records that the successful
\* scrapers of the most recent run_all_scrapers returned, in configuration
\* order (the empty store before any run), whatever runs and single-site calls
\* came before; and no two records of the store share type and url.
C3_StoreIsLatestRun ==
    pc = "idle" =>
        /\ \A i \in 1..Len(last_run) : last_run[i].scraper = Scrapers[i]
        /\ Len(scraped_data) = Len(Successes(last_run))
        /\ \A i \in 1..Len(scraped_data) : scraped_data[i] = Successes(last_run)[i]
        /\ \A i, j \in 1..Len(scraped_data) :
              i # j => <<scraped_data[i].type, scraped_data[i].url>>
                       # <<scraped_data[j].type, scraped_data[j].url>>

\* after a second run that kept one record, a single-site call has succeeded
C3_Witness ==
    /\ runs = 2
    /\ SingleReturned
    /\ ~ret.raised
    /\ DOMAIN ret.value # {}
    /\ Len(scraped_data) = 1
    /\ scraped_data[1].type # ret.value.type

-----------------------------------------------------------------------------
(* C6 *)

\* C6: in every call the sleeps and the GET requests alternate, each GET
\* directly preceded by its own sleep, on the HTML path and on the JSON path;
\* no URL is requested twice in a call (a failed fetch is not retried); a
\* single-site call makes one sleep and one GET, and a run at most one of each
\* per source.
C6_OneWaitBeforeEachGet ==
    /\ Len(trace) % 2 = 0
    /\ \A j \in 1..Len(trace) : trace[j].op = IF j % 2 = 1 THEN "sleep" ELSE "GET"
    /\ \A i, j \in 1..Len(Gets(trace)) :
          i # j => Gets(trace)[i].url # Gets(trace)[j].url
    /\ Len(Gets(trace)) <= Len(Scrapers)
    /\ SingleReturned => Len(trace) = 2

\* a finished run whose HTML fetch and whose JSON fetch both failed
C6_Witness ==
    /\ RunReturned
    /\ Len(trace) = 8
    /\ Gets(trace)[1].resp.status = "Timeout"
    /\ Gets(trace)[4].resp.status = "HTTPError"

-----------------------------------------------------------------------------
(* C7 *)

\* C7: on a scraper built with minDelay > maxDelay there is never a sleep nor
\* a network request.
C7_ReversedRangeNeverFetches ==
    delay_range[1] > delay_range[2] => trace = <<>>

-----------------------------------------------------------------------------
(* C8 *)

\* the error kind a caller can read off what the call returned or raised
ReturnedKind(r) == IF r.raised THEN r.exc ELSE Get(r.value, "error", None)

\* C8 as stated: a failing single-site call hands its caller a value that
\* identifies the error kind.
C8_FailureKindReturned ==
    (SingleReturned /\ IsFailure(Answer)) => ReturnedKind(ret) = FailureKind(Answer)

\* C8, amended: a single-site call whose fetch fails (connection, timeout,
\* HTTP status), or whose JSON body does not parse, returns the empty dict
\* whatever the kind; the kind is only in the one error record it logs.
C8_FailureReturnsEmptyDict ==
    (/\ SingleReturned
     /\ \/ Answer.status \in RequestExceptions
        \/ ret.by = "scrape_json_api" /\ Answer.body.malformed)
    =>  /\ ~ret.raised
        /\ DOMAIN ret.value = {}
        /\ Len(ErrorRecords) = 1
        /\ ErrorRecords[1].err =
              IF Answer.status \in RequestExceptions THEN Answer.status
              ELSE "JSONDecodeError"

\* scrape_quotes_site, called directly, has timed out
C8_Witness ==
    /\ SingleReturned
    /\ ret.by = "scrape_quotes_site"
    /\ Answer.status = "Timeout"
    /\ DOMAIN ret.value = {}

-----------------------------------------------------------------------------
(* C9 *)

\* scrape_json_api has returned the record of a decoded body
JsonExtracted ==
    /\ SingleReturned
    /\ ret.by = "scrape_json_api"
    /\ Answer.status = "ok"
    /\ ~Answer.body.malformed

\* len() of a decoded JSON value
PyLen(v) ==
    CASE v.t = "list" -> Len(v.items)
      [] v.t = "object" -> Cardinality(v.keys)

ListTruncated(v, rec) ==
    /\ rec.api_data.t = "list"
    /\ Len(rec.api_data.items) = Min(Len(v.items), ApiLimit)
    /\ \A i \in 1..Len(rec.api_data.items) : rec.api_data.items[i] = v.items[i]
    /\ rec.total_items = Min(Len(v.items), ApiLimit)

\* C9 as stated: a sequence is cut to its first min(n, 10) elements and
\* counted; an object counts 1; in both cases the count is the cardinality of
\* the collection stored in the payload.
C9_CountIsPayloadCardinality ==
    JsonExtracted =>
        LET v == Answer.body.json
            rec == ret.value
        IN  /\ v.t = "list" => ListTruncated(v, rec)
            /\ v.t = "object" => rec.total_items = 1
            /\ v.t \in {"list", "object"} => rec.total_items = PyLen(rec.api_data)

\* C9, amended: a sequence is cut to its first min(n, 10) elements in order
\* and total_items is the length of the stored list; a single object is
\* stored as it is, not wrapped, with total_items 1 whatever it holds.
C9_ListTruncatedObjectCountsOne ==
    JsonExtracted =>
        LET v == Answer.body.json
            rec == ret.value
        IN  /\ ~ret.raised
            /\ v.t = "list" =>
                  ListTruncated(v, rec) /\ rec.total_items = PyLen(rec.api_data)
            /\ v.t = "object" => rec.total_items = 1 /\ rec.api_data = v

\* a list of more than ten elements has been cut to ten
C9_Witness ==
    /\ JsonExtracted
    /\ Answer.body.json.t = "list"
    /\ Len(Answer.body.json.items) > ApiLimit
    /\ ret.value.total_items = ApiLimit

-----------------------------------------------------------------------------
(* C10 *)

QuotesExtracted ==
    /\ SingleReturned
    /\ ret.by = "scrape_quotes_site"
    /\ Answer.status = "ok"
    /\ ~Answer.body.malformed

BooksExtracted ==
    /\ SingleReturned
    /\ ret.by = "scrape_books_site"
    /\ Answer.status = "ok"
    /\ ~Answer.body.malformed

\* the emitted quotes are the containers kept, in document order
QuotesAre(kept, rec) ==
    /\ Len(rec.quotes) = Len(kept)
    /\ \A i \in 1..Len(kept) :
          rec.quotes[i].text = kept[i].text /\ rec.quotes[i].author = kept[i].author
    /\ rec.total_quotes = Len(rec.quotes)

\* the emitted books are the containers kept, in document order
BooksAre(kept, rec) ==
    /\ Len(rec.books) = Len(kept)
    /\ \A i \in 1..Len(kept) :
          /\ rec.books[i].price = kept[i].price
          /\ rec.books[i].title = IF kept[i].title_attr = None THEN "" ELSE kept[i].title_attr
    /\ rec.total_books = Len(rec.books)

QuotesKept ==
    SelectSeq(Answer.body.quote_divs, LAMBDA d : d.text # None /\ d.author # None)

\* C10 as stated: the emitted quotes are the containers with text and author,
\* the emitted books the containers with a title (the title attribute of the
\* nested anchor) and a price, in document order, and the counts are the
\* numbers emitted.
C10_EmittedHaveBothFields ==
    /\ QuotesExtracted => ~ret.raised /\ QuotesAre(QuotesKept, ret.value)
    /\ BooksExtracted =>
          /\ ~ret.raised
          /\ BooksAre(SelectSeq(Answer.body.articles,
                                LAMBDA b : b.title_attr # None /\ b.price # None),
                      ret.value)

\* C10, amended: the emitted quotes are the containers with text and author;
\* the emitted books are the containers with a title anchor (an a inside an
\* h3) and a price element, an anchor without title attribute giving the
\* title ""; both in document order, a skipped container raising nothing and
\* not hiding the ones after it; the counts are the numbers emitted.
C10_EmittedHaveBothElements ==
    /\ QuotesExtracted => ~ret.raised /\ QuotesAre(QuotesKept, ret.value)
    /\ BooksExtracted =>
          /\ ~ret.raised
          /\ BooksAre(SelectSeq(Answer.body.articles,
                                LAMBDA b : b.h3 /\ b.anchor /\ b.price # None),
                      ret.value)

\* a quote without author was skipped and the quote after it emitted
C10_Witness ==
    /\ QuotesExtracted
    /\ Len(Answer.body.quote_divs) = 2
    /\ Answer.body.quote_divs[1].author = None
    /\ Answer.body.quote_divs[2].text = "b"
    /\ ret.value.total_quotes = 1
    /\ ret.value.quotes[1].text = "b"

-----------------------------------------------------------------------------
(* C4 *)

HasMember(obj, key) == \E i \in 1..Len(obj) : obj[i][1] = key

Member(obj, key) == obj[CHOOSE i \in 1..Len(obj) : obj[i][1] = key][2]

\* the int a cell of decimal digits reads as
RECURSIVE ParseInt(_)
ParseInt(digits) ==
    IF Len(digits) = 1 THEN digits[1]
    ELSE 10 * ParseInt(SubSeq(digits, 1, Len(digits) - 1)) + digits[Len(digits)]

\* the keys under which a record stores its count
CountKeys == {"total_quotes", "total_books", "total_items"}

HasCount(obj) == \E k \in CountKeys : HasMember(obj, k)

StoredCount(obj) == Member(obj, CHOOSE k \in CountKeys : HasMember(obj, k))

\* both files written from the store
BothExported == json_file.exists /\ csv_file.exists

\* the Items Count cell of the CSV row of the i-th record
ItemsCountCell(i) == ParseInt(csv_file.content[i + 1][4])

\* C4 as stated: every record of the JSON export holds a count field, and the
\* Items Count of its CSV row equals that field.
C4_CsvCountIsStoredCount ==
    BothExported =>
        /\ Len(csv_file.content) = Len(json_file.content) + 1
        /\ \A i \in 1..Len(json_file.content) :
              /\ HasCount(json_file.content[i])
              /\ ItemsCountCell(i) = StoredCount(json_file.content[i])

\* C4, amended: for a quotes, books or JSON API record the Items Count of the
\* CSV row equals the count field the record stores (total_quotes,
\* total_books, total_items), as the JSON export shows it; a news record
\* stores no count field and its Items Count is the number of its paragraphs.
C4_CsvCountStoredOrParagraphs ==
    BothExported =>
        /\ Len(csv_file.content) = Len(json_file.content) + 1
        /\ \A i \in 1..Len(json_file.content) :
              LET obj == json_file.content[i] IN
              IF Member(obj, "type") = "news_site"
              THEN /\ ~HasCount(obj)
                   /\ ItemsCountCell(i) = Len(Member(obj, "paragraphs"))
              ELSE /\ HasCount(obj)
                   /\ ItemsCountCell(i) = StoredCount(obj)

\* a store of four records, the JSON API one counting two, exported both ways
C4_Witness ==
    /\ BothExported
    /\ Len(json_file.content) = 4
    /\ Member(json_file.content[4], "total_items") = 2
    /\ ItemsCountCell(4) = 2
    /\ ItemsCountCell(1) = 1

-----------------------------------------------------------------------------
(* C5 *)

\* C5 as stated: exporting an empty store fails in neither format, leaves a
\* CSV file of the header row alone and a JSON file of an empty array.
C5_EmptyStoreHeaderOnlyCsv ==
    scraped_data = <<>> =>
        /\ ret.by = "save_to_csv" =>
              /\ ~ret.raised
              /\ csv_file.exists
              /\ csv_file.content = <<CsvHeader>>
        /\ ret.by = "save_to_json" =>
              /\ ~ret.raised
              /\ json_file.exists
              /\ Len(json_file.content) = 0

\* C5, amended: exporting an empty store fails in neither format; save_to_csv
\* logs a warning and writes nothing, not even the header row, and
\* save_to_json writes an empty array.
C5_EmptyStoreNoCsv ==
    scraped_data = <<>> =>
        /\ ret.by = "save_to_csv" =>
              /\ ~ret.raised
              /\ ~csv_file.exists
              /\ log = <<Warning("No data to save")>>
        /\ ret.by = "save_to_json" =>
              /\ ~ret.raised
              /\ json_file.exists
              /\ Len(json_file.content) = 0

\* after a run in which every source failed, both exports have been called
C5_Witness ==
    /\ runs = 1
    /\ scraped_data = <<>>
    /\ ret.by = "save_to_csv"
    /\ json_file.exists

====
